---- MODULE Spec2Model ----
(***************************************************************************)
(* The transaction-building combinators of core/src/core/build.rs.         *)
(*                                                                         *)
(* A build step (Append) turns a (Transaction, BlindSum) pair into another *)
(* one; transaction() folds a list of steps over (Transaction::empty(),    *)
(* BlindSum::new()), resolves the sum into one blinding factor, signs the  *)
(* encoded fee with it and stores the signature as excess_sig.             *)
(*                                                                         *)
(* Cryptography is symbolic.  A scalar is a number modulo GroupOrder.  A   *)
(* Pedersen commitment r*G + v*H is the pair [g |-> r, h |-> v]: g is      *)
(* reduced modulo the group order, h is the exact amount (u64 amounts      *)
(* never reach the order of the real group).  A signature names the public *)
(* key r*G that made it and the message it signs.                          *)
(***************************************************************************)
EXTENDS Integers, Sequences, FiniteSets, TLC

\* Longest step list handed to transaction().
MaxSteps == 3
\* Order of the scalar group (stands for the order of secp256k1).
GroupOrder == 5

\* Longest list of steps stacked on an earlier transaction.
MaxTail == 2

\* Identifiers the keychain resolves, and the identifiers a step may name: two
\* it resolves and one it does not.
KnownIds == {1, 2, 3, 4}
Identifiers == {1, 2, 5}
\* Identifiers of a first transaction, and fresh ones for steps stacked on it.
OldIds == {1, 2}
NewIds == {3, 4}
\* Amounts of input and output steps, fees, explicit excess terms.
Values == {1, 2}
Fees == {0, 1}
ExcessTerms == {1, 2}

(***************************************************************************)
(* Result<T, E> and panics                                                 *)
(***************************************************************************)
Ok(v) == [ok |-> TRUE, val |-> v]
Err(e) == [ok |-> FALSE, err |-> e]

(***************************************************************************)
(* Scalars and commitments                                                 *)
(***************************************************************************)
Scalar(n) == n % GroupOrder
Neg(a) == (GroupOrder - (a % GroupOrder)) % GroupOrder

RECURSIVE SumSeq(_)
SumSeq(s) == IF s = <<>> THEN 0 ELSE Head(s) + SumSeq(Tail(s))

\* The secret key the keychain derives for an identifier.
Key(id) == Scalar(id)

MapSeq(s, Op(_)) == [i \in 1..Len(s) |-> Op(s[i])]

(***************************************************************************)
(* keychain: Keychain, BlindSum                                            *)
(***************************************************************************)
keychain_commit(value, id) ==
    IF id \in KnownIds
    THEN Ok([g |-> Key(id), h |-> value])
    ELSE Err("KeyDerivation")

ProofMessage_empty == <<>>

keychain_range_proof(value, id, commit, message) ==
    IF id \in KnownIds
    THEN Ok([value |-> value, key |-> Key(id), commit |-> commit, message |-> message])
    ELSE Err("KeyDerivation")

BlindSum_new ==
    [positive_pubkeys |-> <<>>, negative_pubkeys |-> <<>>,
     positive_blinding_factors |-> <<>>, negative_blinding_factors |-> <<>>]

add_pubkey(sum, id) ==
    [sum EXCEPT !.positive_pubkeys = Append(@, id)]

sub_pubkey(sum, id) ==
    [sum EXCEPT !.negative_pubkeys = Append(@, id)]

add_blinding_factor(sum, blind) ==
    [sum EXCEPT !.positive_blinding_factors = Append(@, blind)]

AllKnown(ids) == \A i \in 1..Len(ids) : ids[i] \in KnownIds

\* Resolves the ledger of signed terms into one secret key.  A zero sum is no
\* valid secret key.
keychain_blind_sum(sum) ==
    IF ~(AllKnown(sum.positive_pubkeys) /\ AllKnown(sum.negative_pubkeys))
    THEN Err("KeyDerivation")
    ELSE LET pos == SumSeq(MapSeq(sum.positive_pubkeys, Key))
                    + SumSeq(sum.positive_blinding_factors)
             neg == SumSeq(MapSeq(sum.negative_pubkeys, Key))
                    + SumSeq(sum.negative_blinding_factors)
             s == Scalar(Scalar(pos) + Neg(neg))
         IN IF s = 0 THEN Err("InvalidSecretKey") ELSE Ok(s)

\* A signature: the public key of the signing key, and the message.
keychain_sign_with_blinding(message, blinding) ==
    IF Scalar(blinding) = 0
    THEN Err("InvalidSecretKey")
    ELSE Ok([signer |-> Scalar(blinding), message |-> message])

DerTag == 48
DerLen == 34

serialize_der(signature) ==
    <<DerTag, signature.signer>> \o signature.message

from_der(bytes) ==
    IF Len(bytes) = DerLen /\ bytes[1] = DerTag
    THEN Ok([signer |-> bytes[2], message |-> SubSeq(bytes, 3, DerLen)])
    ELSE Err("InvalidSignature")

MessageSize == 32

Message_from_slice(bytes) ==
    IF Len(bytes) = MessageSize THEN Ok(bytes) ELSE Err("InvalidMessage")

(***************************************************************************)
(* core: Transaction, Input, Output                                        *)
(***************************************************************************)
DEFAULT_OUTPUT == "DEFAULT_OUTPUT"

Transaction_empty ==
    [inputs |-> <<>>, outputs |-> <<>>, fee |-> 0, excess_sig |-> <<>>]

Input(commit) == [commit |-> commit]

Output(features, commit, proof) ==
    [features |-> features, commit |-> commit, proof |-> proof]

tx_with_input(tx, in) == [tx EXCEPT !.inputs = Append(@, in)]
tx_with_output(tx, out) == [tx EXCEPT !.outputs = Append(@, out)]
tx_with_fee(tx, fee) == [tx EXCEPT !.fee = fee]

(***************************************************************************)
(* build.rs                                                                *)
(***************************************************************************)
RECURSIVE BigEndian_write_u64(_, _)
BigEndian_write_u64(n, nbytes) ==
    IF nbytes = 0 THEN <<>>
    ELSE Append(BigEndian_write_u64(n \div 256, nbytes - 1), n % 256)

\* The buffer left as allocated: the fee never written.
u64_to_32bytes_unwritten(n) ==
    [i \in 1..32 |-> 0]

\* The fee written little-endian.
RECURSIVE LittleEndian_write_u64(_, _)
LittleEndian_write_u64(n, nbytes) ==
    IF nbytes = 0 THEN <<>>
    ELSE <<n % 256>> \o LittleEndian_write_u64(n \div 256, nbytes - 1)

u64_to_32bytes_little(n) ==
    [i \in 1..24 |-> 0] \o LittleEndian_write_u64(n, 8)

u64_to_32bytes(n) ==
    [i \in 1..24 |-> 0] \o BigEndian_write_u64(n, 8)

\* The boxed closures: what each combinator captures.
input(value, pubkey) == [op |-> "input", value |-> value, pubkey |-> pubkey]
output(value, pubkey) == [op |-> "output", value |-> value, pubkey |-> pubkey]
with_fee(fee) == [op |-> "with_fee", fee |-> fee]
with_excess(excess) == [op |-> "with_excess", excess |-> excess]
initial_tx(tx) == [op |-> "initial_tx", tx |-> tx]

\* A closure call either yields the next pair or panics (a failed unwrap).
Pair(tx, sum) == [panic |-> FALSE, tx |-> tx, sum |-> sum]
Panicked == [panic |-> TRUE]

\* input with the key added to the sum instead of subtracted.
input_call_added(elem, acc) ==
    LET commit == keychain_commit(elem.value, elem.pubkey)
    IN IF ~commit.ok THEN Panicked
       ELSE Pair(tx_with_input(acc.tx, Input(commit.val)),
                 add_pubkey(acc.sum, elem.pubkey))

\* input with the new Input put before the earlier ones.
input_call_prepended(elem, acc) ==
    LET commit == keychain_commit(elem.value, elem.pubkey)
    IN IF ~commit.ok THEN Panicked
       ELSE Pair([acc.tx EXCEPT !.inputs = <<Input(commit.val)>> \o @],
                 sub_pubkey(acc.sum, elem.pubkey))

input_call(elem, acc) ==
    LET commit == keychain_commit(elem.value, elem.pubkey)
    IN IF ~commit.ok THEN Panicked
       ELSE Pair(tx_with_input(acc.tx, Input(commit.val)),
                 sub_pubkey(acc.sum, elem.pubkey))

\* output that leaves the sum alone.
output_call_unsummed(elem, acc) ==
    LET commit == keychain_commit(elem.value, elem.pubkey)
    IN IF ~commit.ok THEN Panicked
       ELSE LET rproof == keychain_range_proof(elem.value, elem.pubkey,
                                               commit.val, ProofMessage_empty)
            IN IF ~rproof.ok THEN Panicked
               ELSE Pair(tx_with_output(acc.tx,
                             Output(DEFAULT_OUTPUT, commit.val, rproof.val)),
                         acc.sum)

output_call(elem, acc) ==
    LET commit == keychain_commit(elem.value, elem.pubkey)
    IN IF ~commit.ok THEN Panicked
       ELSE LET message == ProofMessage_empty
                rproof == keychain_range_proof(elem.value, elem.pubkey,
                                               commit.val, message)
            IN IF ~rproof.ok THEN Panicked
               ELSE Pair(tx_with_output(acc.tx,
                             Output(DEFAULT_OUTPUT, commit.val, rproof.val)),
                         add_pubkey(acc.sum, elem.pubkey))

\* with_fee that sets the fee on an empty transaction, not on the one built.
with_fee_call_emptied(elem, acc) ==
    Pair(tx_with_fee(Transaction_empty, elem.fee), acc.sum)

\* with_fee that adds to the fee already set.
with_fee_call_added(elem, acc) ==
    Pair(tx_with_fee(acc.tx, acc.tx.fee + elem.fee), acc.sum)

with_fee_call(elem, acc) ==
    Pair(tx_with_fee(acc.tx, elem.fee), acc.sum)

\* with_excess that adds its term to the sum twice.
with_excess_call_doubled(elem, acc) ==
    Pair(acc.tx, add_blinding_factor(add_blinding_factor(acc.sum, elem.excess),
                                     elem.excess))

\* with_excess that leaves the sum alone.
with_excess_call_ignored(elem, acc) ==
    Pair(acc.tx, acc.sum)

with_excess_call(elem, acc) ==
    Pair(acc.tx, add_blinding_factor(acc.sum, elem.excess))

\* initial_tx that keeps the fee already set on the transaction being built.
initial_tx_call_keptfee(elem, acc) ==
    Pair([elem.tx EXCEPT !.fee = acc.tx.fee], acc.sum)

\* initial_tx that also starts the sum afresh.
initial_tx_call_newsum(elem, acc) ==
    Pair(elem.tx, BlindSum_new)

\* initial_tx that drops the excess signature of the transaction it copies.
initial_tx_call_unsigned(elem, acc) ==
    Pair([elem.tx EXCEPT !.excess_sig = <<>>], acc.sum)

initial_tx_call(elem, acc) ==
    Pair(elem.tx, acc.sum)

\* elem(&mut ctx, acc)
Append_call(elem, acc) ==
    CASE elem.op = "input" -> input_call(elem, acc)
      [] elem.op = "output" -> output_call(elem, acc)
      [] elem.op = "with_fee" -> with_fee_call(elem, acc)
      [] elem.op = "with_excess" -> with_excess_call(elem, acc)
      [] elem.op = "initial_tx" -> initial_tx_call(elem, acc)

\* What transaction() hands back: Ok((tx, blind_sum)), Err(e), or a panic.
ReturnOk(tx, blind) == [kind |-> "Ok", tx |-> tx, blind |-> blind]
ReturnErr(e) == [kind |-> "Err", err |-> e]
Unwound == [kind |-> "Panic"]
NotReturned == [kind |-> "None"]

\* elems.iter().fold((Transaction::empty(), BlindSum::new()), ...)
RECURSIVE fold(_, _)
fold(elems_, acc) ==
    IF elems_ = <<>> \/ acc.panic THEN acc
    ELSE fold(Tail(elems_), Append_call(Head(elems_), acc))

\* Lines 110-114 on the pair the fold returned.
finalize(acc) ==
    LET bs == keychain_blind_sum(acc.sum)
    IN IF ~bs.ok THEN ReturnErr(bs.err)
       ELSE LET m == Message_from_slice(u64_to_32bytes(acc.tx.fee))
            IN IF ~m.ok THEN ReturnErr(m.err)
               ELSE LET s == keychain_sign_with_blinding(m.val, bs.val)
                    IN IF ~s.ok THEN ReturnErr(s.err)
                       ELSE ReturnOk([acc.tx EXCEPT !.excess_sig = serialize_der(s.val)],
                                     bs.val)

\* transaction(elems, keychain) as a function of its step list.
transaction(elems_) ==
    LET acc == fold(elems_, Pair(Transaction_empty, BlindSum_new))
    IN IF acc.panic THEN Unwound ELSE finalize(acc)

(***************************************************************************)
(* core: Transaction::verify_sig                                           *)
(***************************************************************************)
CommitG(x) == x.commit.g
CommitH(x) == x.commit.h

\* Sum of the output commitments and the fee, minus the input commitments.
sum_commitments(tx) ==
    [g |-> Scalar(Scalar(SumSeq(MapSeq(tx.outputs, CommitG)))
                  + Neg(SumSeq(MapSeq(tx.inputs, CommitG)))),
     h |-> SumSeq(MapSeq(tx.outputs, CommitH)) + tx.fee
           - SumSeq(MapSeq(tx.inputs, CommitH))]

\* The message a verifier expects: the fee, big-endian, in the low 8 of 32 bytes.
RECURSIVE ByteOf(_, _)
ByteOf(n, k) == IF k = 0 THEN n % 256 ELSE ByteOf(n \div 256, k - 1)

fee_message(fee) ==
    [i \in 1..32 |-> IF i <= 24 THEN 0 ELSE ByteOf(fee, 32 - i)]

\* The excess is a public key only when no amount is left in it; the
\* signature must be one by that key over the encoded fee.
verify_sig(tx) ==
    LET rsum == sum_commitments(tx)
        sig == from_der(tx.excess_sig)
    IN /\ sig.ok
       /\ rsum.h = 0
       /\ rsum.g # 0
       /\ sig.val.signer = rsum.g
       /\ sig.val.message = fee_message(tx.fee)

(***************************************************************************)
(* The step lists callers build                                            *)
(***************************************************************************)
\* A transaction built earlier, for initial_tx, with the sum returned then.
PriorResult == transaction(<<input(2, 1), output(1, 2), with_fee(1)>>)

Steps ==
    {input(v, i) : v \in Values, i \in Identifiers}
    \cup {output(v, i) : v \in Values, i \in Identifiers}
    \cup {with_fee(f) : f \in Fees}
    \cup {with_excess(b) : b \in ExcessTerms}
    \cup {initial_tx(PriorResult.tx)}

ListsOf(S, n) == UNION {[1..k -> S] : k \in 0..n}

(***************************************************************************)
(* One transaction() call, an operation at a time                          *)
(***************************************************************************)
VARIABLES
    pc,         \* where the call is: idle, fold, msg, sign, set_sig, done, panicked
    elems,      \* the step list of the call
    idx,        \* steps of elems the fold has executed
    tx, sum,    \* the pair threaded through the fold, then the locals tx, sum
    blind_sum,  \* the local blind_sum (line 110)
    msg,        \* the local msg (line 111)
    sig,        \* the local sig (line 112)
    result,     \* what the caller received
    resolved,   \* calls of keychain.blind_sum made by this call
    derived,    \* identifiers this call asked the keychain to derive a key for
    call,       \* 1: a first call; 2: a call stacked on the result of the first
    prior,      \* the Ok result of the first call, once a second is stacked on it
    peer        \* another call of transaction(), with its own Context and locals:
                \* one running at the same time, or the one that ended before

vars == <<pc, elems, idx, tx, sum, blind_sum, msg, sig, result, resolved,
          derived, call, prior, peer>>

NoSig == [signer |-> 0, message |-> <<>>]

\* The Context and locals of a call of transaction(), as one value.
StartFrame(list) ==
    [pc |-> "fold", elems |-> list, idx |-> 0,
     tx |-> Transaction_empty, sum |-> BlindSum_new,
     blind_sum |-> 0, msg |-> <<>>, sig |-> NoSig, result |-> NotReturned]

IdleFrame == [StartFrame(<<>>) EXCEPT !.pc = "idle"]

Frame ==
    [pc |-> pc, elems |-> elems, idx |-> idx, tx |-> tx, sum |-> sum,
     blind_sum |-> blind_sum, msg |-> msg, sig |-> sig, result |-> result]

\* A call that starts on the sum the call before it left behind.
Start_keptsum(list) ==
    /\ pc' = "fold"
    /\ elems' = list
    /\ idx' = 0
    /\ tx' = Transaction_empty
    /\ sum' = sum
    /\ blind_sum' = 0
    /\ msg' = <<>>
    /\ sig' = NoSig
    /\ result' = NotReturned
    /\ resolved' = 0
    /\ derived' = {}

Start(list) ==
    /\ pc' = "fold"
    /\ elems' = list
    /\ idx' = 0
    /\ tx' = Transaction_empty
    /\ sum' = BlindSum_new
    /\ blind_sum' = 0
    /\ msg' = <<>>
    /\ sig' = NoSig
    /\ result' = NotReturned
    /\ resolved' = 0
    /\ derived' = {}

Init ==
    /\ pc = "idle"
    /\ elems = <<>>
    /\ idx = 0
    /\ tx = Transaction_empty
    /\ sum = BlindSum_new
    /\ blind_sum = 0
    /\ msg = <<>>
    /\ sig = NoSig
    /\ result = NotReturned
    /\ resolved = 0
    /\ derived = {}
    /\ call = 1
    /\ prior = NotReturned
    /\ peer = IdleFrame

\* A caller hands a step list to transaction().
Call ==
    /\ pc = "idle"
    /\ \E list \in ListsOf(Steps, MaxSteps) : Start(list)
    /\ UNCHANGED <<call, prior, peer>>

IdsOf(elem) == IF elem.op \in {"input", "output"} THEN {elem.pubkey} ELSE {}

SeqRange(s) == {s[i] : i \in 1..Len(s)}

\* A fold that passes over a failed step and goes on with the next one.
FoldElem_skipping ==
    /\ pc = "fold"
    /\ idx < Len(elems)
    /\ LET next == Append_call(elems[idx + 1], Pair(tx, sum))
       IN IF next.panic
          THEN UNCHANGED <<tx, sum>>
          ELSE /\ tx' = next.tx
               /\ sum' = next.sum
    /\ idx' = idx + 1
    /\ derived' = derived \cup IdsOf(elems[idx + 1])
    /\ UNCHANGED <<pc, result, elems, blind_sum, msg, sig, resolved, call, prior, peer>>

\* One iteration of the fold (line 108): elem(&mut ctx, acc).
FoldElem ==
    /\ pc = "fold"
    /\ idx < Len(elems)
    /\ LET next == Append_call(elems[idx + 1], Pair(tx, sum))
       IN IF next.panic
          THEN /\ pc' = "panicked"
               /\ result' = Unwound
               /\ UNCHANGED <<tx, sum>>
          ELSE /\ tx' = next.tx
               /\ sum' = next.sum
               /\ UNCHANGED <<pc, result>>
    /\ idx' = idx + 1
    /\ derived' = derived \cup IdsOf(elems[idx + 1])
    /\ UNCHANGED <<elems, blind_sum, msg, sig, resolved, call, prior, peer>>

\* A finalization that first refuses a transaction whose amounts do not balance.
ResolveSum_balanced ==
    /\ pc = "fold"
    /\ idx = Len(elems)
    /\ LET r == IF sum_commitments(tx).h # 0 THEN Err("Unbalanced")
                ELSE keychain_blind_sum(sum)
       IN IF r.ok
          THEN /\ blind_sum' = r.val
               /\ pc' = "msg"
               /\ UNCHANGED result
          ELSE /\ result' = ReturnErr(r.err)
               /\ pc' = "done"
               /\ UNCHANGED blind_sum
    /\ resolved' = resolved + 1
    /\ derived' = derived \cup SeqRange(sum.positive_pubkeys)
                          \cup SeqRange(sum.negative_pubkeys)
    /\ UNCHANGED <<elems, idx, tx, sum, msg, sig, call, prior, peer>>

\* let blind_sum = ctx.keychain.blind_sum(&sum)?;  (line 110)
ResolveSum ==
    /\ pc = "fold"
    /\ idx = Len(elems)
    /\ LET r == keychain_blind_sum(sum)
       IN IF r.ok
          THEN /\ blind_sum' = r.val
               /\ pc' = "msg"
               /\ UNCHANGED result
          ELSE /\ result' = ReturnErr(r.err)
               /\ pc' = "done"
               /\ UNCHANGED blind_sum
    /\ resolved' = resolved + 1
    /\ derived' = derived \cup SeqRange(sum.positive_pubkeys)
                          \cup SeqRange(sum.negative_pubkeys)
    /\ UNCHANGED <<elems, idx, tx, sum, msg, sig, call, prior, peer>>

\* let msg = secp::Message::from_slice(&u64_to_32bytes(tx.fee))?;  (line 111)
BuildMessage ==
    /\ pc = "msg"
    /\ LET r == Message_from_slice(u64_to_32bytes(tx.fee))
       IN IF r.ok
          THEN /\ msg' = r.val
               /\ pc' = "sign"
               /\ UNCHANGED result
          ELSE /\ result' = ReturnErr(r.err)
               /\ pc' = "done"
               /\ UNCHANGED msg
    /\ UNCHANGED <<elems, idx, tx, sum, blind_sum, sig, resolved, derived, call, prior, peer>>

\* Signing with the sum resolved a second time, after one more explicit term.
Sign_resummed ==
    /\ pc = "sign"
    /\ LET again == keychain_blind_sum(add_blinding_factor(sum, 1))
           r == IF again.ok THEN keychain_sign_with_blinding(msg, again.val) ELSE again
       IN IF r.ok
          THEN /\ sig' = r.val
               /\ pc' = "set_sig"
               /\ UNCHANGED result
          ELSE /\ result' = ReturnErr(r.err)
               /\ pc' = "done"
               /\ UNCHANGED sig
    /\ UNCHANGED <<elems, idx, tx, sum, blind_sum, msg, resolved, derived, call, prior, peer>>

\* let sig = ctx.keychain.sign_with_blinding(&msg, &blind_sum)?;  (line 112)
Sign ==
    /\ pc = "sign"
    /\ LET r == keychain_sign_with_blinding(msg, blind_sum)
       IN IF r.ok
          THEN /\ sig' = r.val
               /\ pc' = "set_sig"
               /\ UNCHANGED result
          ELSE /\ result' = ReturnErr(r.err)
               /\ pc' = "done"
               /\ UNCHANGED sig
    /\ UNCHANGED <<elems, idx, tx, sum, blind_sum, msg, resolved, derived, call, prior, peer>>

\* Returning the transaction without storing the signature in it.
Finish_unsigned ==
    /\ pc = "set_sig"
    /\ result' = ReturnOk(tx, blind_sum)
    /\ pc' = "done"
    /\ UNCHANGED <<elems, idx, tx, sum, blind_sum, msg, sig, resolved, derived, call, prior, peer>>

\* tx.excess_sig = sig.serialize_der(..); Ok((tx, blind_sum))  (lines 113-114)
Finish ==
    /\ pc = "set_sig"
    /\ tx' = [tx EXCEPT !.excess_sig = serialize_der(sig)]
    /\ result' = ReturnOk(tx', blind_sum)
    /\ pc' = "done"
    /\ UNCHANGED <<elems, idx, sum, blind_sum, msg, sig, resolved, derived, call, prior, peer>>

\* The steps of a first call whose result a second call is stacked on,
\* and the steps stacked on it.
FirstSteps ==
    {input(1, i) : i \in OldIds}
    \cup {output(1, i) : i \in OldIds}
    \cup {with_fee(f) : f \in Fees}
    \cup {with_excess(1)}

TailSteps ==
    {input(1, i) : i \in NewIds} \cup {output(1, i) : i \in NewIds}

CallFirst ==
    /\ pc = "idle"
    /\ \E list \in ListsOf(FirstSteps, MaxSteps) : Start(list)
    /\ UNCHANGED <<call, prior, peer>>

\* The caller, holding Ok((tx1, sum1)), calls transaction() again with
\* initial_tx(tx1), with_excess(sum1) and further steps.
CallStacked ==
    /\ pc = "done"
    /\ call = 1
    /\ result.kind = "Ok"
    /\ prior' = result
    /\ call' = 2
    /\ \E tail \in ListsOf(TailSteps, MaxTail) :
          Start(<<initial_tx(result.tx), with_excess(result.blind)>> \o tail)
    /\ UNCHANGED peer

\* Fees across the part of the u64 range that TLC's integers hold.
U64Samples ==
    (0..40) \cup {255, 256, 257, 511, 512, 65535, 65536, 65537, 16777215,
                  16777216, 16777217, 16909060, 305419896, 2147483647}

\* A call about to build its message, for any fee: the steps
\* with_excess(1), with_fee(f) folded and the sum resolved.
InitEncode ==
    \E f \in U64Samples :
       LET list == <<with_excess(1), with_fee(f)>>
           acc == fold(list, Pair(Transaction_empty, BlindSum_new))
       IN /\ pc = "msg"
          /\ elems = list
          /\ idx = Len(list)
          /\ tx = acc.tx
          /\ sum = acc.sum
          /\ blind_sum = keychain_blind_sum(acc.sum).val
          /\ msg = <<>>
          /\ sig = NoSig
          /\ result = NotReturned
          /\ resolved = 1
          /\ derived = {}
          /\ call = 1
          /\ prior = NotReturned
          /\ peer = IdleFrame

Next == Call \/ FoldElem \/ ResolveSum \/ BuildMessage \/ Sign \/ Finish

Spec == Init /\ [][Next]_vars

\* Two calls, the second stacked on the result of the first.
NextCompose ==
    CallFirst \/ CallStacked \/ FoldElem \/ ResolveSum \/ BuildMessage \/ Sign \/ Finish

SpecCompose == Init /\ [][NextCompose]_vars

\* The finalization of a call, for fees across the u64 range.
NextEncode == BuildMessage \/ Sign \/ Finish

SpecEncode == InitEncode /\ [][NextEncode]_vars

(***************************************************************************)
(* Two calls of transaction() with the same keychain: at the same time,    *)
(* and one after the other                                                 *)
(***************************************************************************)
\* The steps of the call held in the variables, and those of the other call
\* (one of them names an identifier the keychain does not resolve).
OwnSteps == {input(1, 1), output(1, 2), with_fee(1)}
PeerSteps == {input(2, 2), output(2, 5), with_excess(1)}

CallOwn ==
    /\ pc = "idle"
    /\ \E list \in ListsOf(OwnSteps, MaxSteps) : Start(list)
    /\ UNCHANGED <<call, prior, peer>>

\* A fold iteration of the other call on the sum of the call in the variables.
FrameFold_sharing(f) ==
    LET next == Append_call(f.elems[f.idx + 1], Pair(f.tx, sum))
    IN IF next.panic
       THEN [f EXCEPT !.pc = "panicked", !.result = Unwound, !.idx = @ + 1]
       ELSE [f EXCEPT !.tx = next.tx, !.sum = next.sum, !.idx = @ + 1]

\* Line 108 on the pair of the frame f.
FrameFold(f) ==
    LET next == Append_call(f.elems[f.idx + 1], Pair(f.tx, f.sum))
    IN IF next.panic
       THEN [f EXCEPT !.pc = "panicked", !.result = Unwound, !.idx = @ + 1]
       ELSE [f EXCEPT !.tx = next.tx, !.sum = next.sum, !.idx = @ + 1]

\* Lines 110 to 114 on the locals of the frame f, an operation at a time.
FrameFinalize(f) ==
    CASE f.pc = "fold" ->
           LET r == keychain_blind_sum(f.sum)
           IN IF r.ok THEN [f EXCEPT !.blind_sum = r.val, !.pc = "msg"]
              ELSE [f EXCEPT !.result = ReturnErr(r.err), !.pc = "done"]
      [] f.pc = "msg" ->
           LET r == Message_from_slice(u64_to_32bytes(f.tx.fee))
           IN IF r.ok THEN [f EXCEPT !.msg = r.val, !.pc = "sign"]
              ELSE [f EXCEPT !.result = ReturnErr(r.err), !.pc = "done"]
      [] f.pc = "sign" ->
           LET r == keychain_sign_with_blinding(f.msg, f.blind_sum)
           IN IF r.ok THEN [f EXCEPT !.sig = r.val, !.pc = "set_sig"]
              ELSE [f EXCEPT !.result = ReturnErr(r.err), !.pc = "done"]
      [] f.pc = "set_sig" ->
           LET signed == [f.tx EXCEPT !.excess_sig = serialize_der(f.sig)]
           IN [f EXCEPT !.tx = signed, !.result = ReturnOk(signed, f.blind_sum),
                        !.pc = "done"]

\* The next operation of the call whose frame is f.
Advance(f) ==
    IF f.pc = "fold" /\ f.idx < Len(f.elems) THEN FrameFold(f) ELSE FrameFinalize(f)

OwnVars == <<pc, elems, idx, tx, sum, blind_sum, msg, sig, result, resolved,
             derived, call, prior>>

PeerCall ==
    /\ peer.pc = "idle"
    /\ \E list \in ListsOf(PeerSteps, MaxSteps) : peer' = StartFrame(list)
    /\ UNCHANGED OwnVars

PeerStep ==
    /\ peer.pc \in {"fold", "msg", "sign", "set_sig"}
    /\ peer' = Advance(peer)
    /\ UNCHANGED OwnVars

NextConcurrent ==
    CallOwn \/ FoldElem \/ ResolveSum \/ BuildMessage \/ Sign \/ Finish
      \/ PeerCall \/ PeerStep

SpecConcurrent == Init /\ [][NextConcurrent]_vars

\* The caller, after a call has ended, calls transaction() again; the frame
\* of the ended call is kept in peer.
CallAgain ==
    /\ pc \in {"done", "panicked"}
    /\ call = 1
    /\ peer' = Frame
    /\ call' = 2
    /\ \E list \in ListsOf(OwnSteps, MaxSteps) : Start(list)
    /\ UNCHANGED prior

NextRepeat ==
    CallOwn \/ CallAgain \/ FoldElem \/ ResolveSum \/ BuildMessage \/ Sign \/ Finish

SpecRepeat == Init /\ [][NextRepeat]_vars

(***************************************************************************)
(* What a step list says, read off the list alone                          *)
(***************************************************************************)
Positions(list, ops) == {i \in 1..Len(list) : list[i].op \in ops}

\* The signed term an executed step contributes to the blinding sum.
StepTerm(elem) ==
    CASE elem.op = "output" -> Key(elem.pubkey)
      [] elem.op = "input" -> Neg(Key(elem.pubkey))
      [] elem.op = "with_excess" -> Scalar(elem.excess)
      [] OTHER -> 0

ExpectedBlind(list) == Scalar(SumSeq(MapSeq(list, StepTerm)))

InValue(elem) == IF elem.op = "input" THEN elem.value ELSE 0
OutValue(elem) == IF elem.op = "output" THEN elem.value ELSE 0

Max(S) == CHOOSE m \in S : \A x \in S : x <= m

\* The argument of the last with_fee of a list, 0 without any.
LastFee(list) ==
    LET F == Positions(list, {"with_fee"})
    IN IF F = {} THEN 0 ELSE list[Max(F)].fee

\* A list that builds from scratch and spends what it creates plus the fee.
FromScratch(list) == Positions(list, {"with_excess", "initial_tx"}) = {}
HasInOut(list) == Positions(list, {"input", "output"}) # {}
ValuesBalance(list) ==
    SumSeq(MapSeq(list, InValue)) = SumSeq(MapSeq(list, OutValue)) + LastFee(list)
ValidSteps(list) == FromScratch(list) /\ HasInOut(list) /\ ValuesBalance(list)

ReturnedOk == pc = "done" /\ result.kind = "Ok"

(***************************************************************************)
(* C1: whenever transaction() returns Ok, the blinding factor it returns   *)
(* is the sum of the keys of the output steps, minus the sum of the keys   *)
(* of the input steps, plus the sum of the factors given by with_excess    *)
(* steps, whatever the order and number of the steps.                      *)
(***************************************************************************)
C1_BlindIsSignedSum ==
    ReturnedOk => result.blind = ExpectedBlind(elems)

C1_Witness ==
    /\ ReturnedOk
    /\ Positions(elems, {"input"}) # {}
    /\ Positions(elems, {"output"}) # {}
    /\ Positions(elems, {"with_excess"}) # {}
    /\ result.blind = ExpectedBlind(elems)

(***************************************************************************)
(* C2: for a valid step list (input, output and with_fee steps only, at    *)
(* least one input or output, input amounts equal to output amounts plus   *)
(* the final fee) on which transaction() returns Ok, the excess signature  *)
(* of the returned transaction verifies against the excess of that         *)
(* transaction's own commitments.                                          *)
(***************************************************************************)
C2_ValidStepsVerify ==
    (ReturnedOk /\ ValidSteps(elems)) => verify_sig(result.tx)

C2_Witness ==
    /\ ReturnedOk
    /\ ValidSteps(elems)
    /\ Len(result.tx.inputs) = 1
    /\ Len(result.tx.outputs) = 1
    /\ result.tx.fee = 1
    /\ verify_sig(result.tx)

(***************************************************************************)
(* C4: when an input or output step names an identifier the keychain       *)
(* cannot resolve, transaction() returns the derivation error as its Err   *)
(* value (and no transaction).                                             *)
(***************************************************************************)
DerivationFailed ==
    /\ pc \in {"done", "panicked"}
    /\ idx >= 1
    /\ elems[idx].op \in {"input", "output"}
    /\ elems[idx].pubkey \notin KnownIds

\* C4: a failed key derivation in a step ends the call with Err(derivation error).
C4_DerivationErrReturned ==
    DerivationFailed => result = ReturnErr("KeyDerivation")

(***************************************************************************)
(* C5: transaction() returns either Ok with a transaction whose excess     *)
(* signature is the serialized signature, together with the resolved       *)
(* blinding factor, or one Err, that of the first failing operation of     *)
(* sum resolution, message construction and signing; the caller never      *)
(* holds a transaction that is unsigned or whose sum is unresolved.        *)
(***************************************************************************)
\* The first of the three finalization operations to fail on the folded pair.
FirstFailure(tx_, sum_) ==
    LET bs == keychain_blind_sum(sum_)
        m == Message_from_slice(u64_to_32bytes(tx_.fee))
    IN IF ~bs.ok THEN bs
       ELSE IF ~m.ok THEN m
       ELSE keychain_sign_with_blinding(m.val, bs.val)

Complete ==
    /\ resolved = 1
    /\ keychain_blind_sum(sum) = Ok(result.blind)
    /\ result.tx.excess_sig # <<>>
    /\ result.tx.excess_sig = serialize_der(sig)
    /\ from_der(result.tx.excess_sig) = Ok(sig)
    /\ sig.signer = result.blind
    /\ [result.tx EXCEPT !.excess_sig = <<>>] = [tx EXCEPT !.excess_sig = <<>>]

\* C5: the caller holds Ok only with a complete transaction, and Err only as
\* the error of the first failing finalization operation.
C5_CompleteOrSingleErr ==
    /\ result.kind = "Ok" => (pc = "done" /\ Complete)
    /\ pc = "done" => result.kind \in {"Ok", "Err"}
    /\ result.kind = "Err" =>
          /\ pc = "done"
          /\ idx = Len(elems)
          /\ ~FirstFailure(tx, sum).ok
          /\ result = ReturnErr(FirstFailure(tx, sum).err)

C5_Witness ==
    /\ pc = "done"
    /\ result.kind = "Err"
    /\ FromScratch(elems)
    /\ Len(tx.inputs) = 1
    /\ Len(tx.outputs) = 1
    /\ tx.fee = 1

(***************************************************************************)
(* C7: the signed message is the encoding of the fee the transaction holds *)
(* when the fold ends, so a returned transaction whose fee is then changed *)
(* to any other value no longer verifies.                                  *)
(***************************************************************************)
OtherFees == Fees \cup {2, 255, 256, 257, 65536}

\* C7: the signature is over the final fee's encoding; with any other fee the
\* returned transaction fails verification.
C7_AlteredFeeFails ==
    ReturnedOk =>
        /\ from_der(result.tx.excess_sig).val.message = fee_message(result.tx.fee)
        /\ \A f \in OtherFees \ {result.tx.fee} :
              ~verify_sig([result.tx EXCEPT !.fee = f])

C7_Witness ==
    /\ ReturnedOk
    /\ result.tx.fee = 1
    /\ verify_sig(result.tx)
    /\ ~verify_sig([result.tx EXCEPT !.fee = 0])

(***************************************************************************)
(* C8: the accumulator is resolved once, after the last step; the blinding *)
(* factor this gives is the private key of the excess signature, and it is *)
(* the second component of the Ok result.                                  *)
(***************************************************************************)
C8_SignsWithReturnedBlind ==
    /\ resolved <= 1
    /\ resolved = 1 => idx = Len(elems)
    /\ ReturnedOk =>
          /\ resolved = 1
          /\ result.blind = blind_sum
          /\ keychain_blind_sum(sum) = Ok(result.blind)
          /\ from_der(result.tx.excess_sig).ok
          /\ from_der(result.tx.excess_sig).val.signer = result.blind

C8_Witness ==
    /\ ReturnedOk
    /\ Len(elems) = MaxSteps
    /\ Positions(elems, {"with_excess"}) # {}
    /\ from_der(result.tx.excess_sig).val.signer = result.blind

(***************************************************************************)
(* C9: for a fixed list of input and output steps, with_fee(f) inserted at *)
(* any position gives the same outcome: the same inputs, outputs and fee,  *)
(* the same resolved blinding factor, and the same verdict of the excess   *)
(* signature's verification.                                               *)
(***************************************************************************)
RemoveAt(list, i) == SubSeq(list, 1, i - 1) \o SubSeq(list, i + 1, Len(list))
InsertAt(list, j, e) == SubSeq(list, 1, j) \o <<e>> \o SubSeq(list, j + 1, Len(list))

Ended == pc \in {"done", "panicked"}

SameOutcome(a, b) ==
    /\ a.kind = b.kind
    /\ a.kind = "Err" => a.err = b.err
    /\ a.kind = "Ok" =>
          /\ a.tx.inputs = b.tx.inputs
          /\ a.tx.outputs = b.tx.outputs
          /\ a.tx.fee = b.tx.fee
          /\ a.blind = b.blind
          /\ verify_sig(a.tx) = verify_sig(b.tx)

\* The list is input and output steps and exactly one with_fee.
OneFeeAmongInOut(list) ==
    /\ Positions(list, {"with_excess", "initial_tx"}) = {}
    /\ Cardinality(Positions(list, {"with_fee"})) = 1

\* C9: moving the one with_fee of an input/output list to any position leaves
\* the outcome the same.
C9_FeePositionIrrelevant ==
    (Ended /\ OneFeeAmongInOut(elems)) =>
        LET i == CHOOSE k \in Positions(elems, {"with_fee"}) : TRUE
            base == RemoveAt(elems, i)
        IN \A j \in 0..Len(base) :
              SameOutcome(result, transaction(InsertAt(base, j, elems[i])))

C9_Witness ==
    /\ ReturnedOk
    /\ Len(elems) = 3
    /\ elems[1].op = "with_fee"
    /\ elems[1].fee = 1
    /\ elems[2].op = "input"
    /\ elems[3].op = "output"
    /\ verify_sig(result.tx)
    /\ SameOutcome(result, transaction(<<elems[2], elems[3], elems[1]>>))

(***************************************************************************)
(* C10: when with_fee is executed several times, with no initial_tx after  *)
(* the last of them, the returned transaction's fee is the argument of the *)
(* last with_fee and the signed message encodes that fee alone; the        *)
(* earlier with_fee steps change nothing of the outcome.                   *)
(***************************************************************************)
WithoutEarlierFees(list) ==
    LET last == Max(Positions(list, {"with_fee"}))
    IN SelectSeq([i \in 1..Len(list) |-> [at |-> i, elem |-> list[i]]],
                 LAMBDA x : x.elem.op # "with_fee" \/ x.at = last)

SeveralFees(list) ==
    /\ Cardinality(Positions(list, {"with_fee"})) >= 2
    /\ \A i \in Positions(list, {"initial_tx"}) :
          i < Max(Positions(list, {"with_fee"}))

Elem(x) == x.elem

\* C10: of several with_fee steps the last sets the fee and the signed
\* message; the earlier ones change nothing.
C10_LastFeeWins ==
    (Ended /\ SeveralFees(elems)) =>
        /\ result = transaction(MapSeq(WithoutEarlierFees(elems), Elem))
        /\ result.kind = "Ok" =>
              /\ result.tx.fee = LastFee(elems)
              /\ from_der(result.tx.excess_sig).val.message
                    = fee_message(LastFee(elems))

C10_Witness ==
    /\ ReturnedOk
    /\ Len(elems) = 3
    /\ elems[1] = with_fee(1)
    /\ elems[2] = with_fee(0)
    /\ result.tx.fee = 0

(***************************************************************************)
(* C6: u64_to_32bytes(f) is 32 bytes long, its bytes 0..24 are zero and    *)
(* its bytes 24..32 are f big-endian: read as a big-endian number the      *)
(* buffer is f, and distinct fees give distinct buffers.                   *)
(***************************************************************************)
RECURSIVE FromBigEndian(_)
FromBigEndian(bytes) ==
    IF bytes = <<>> THEN 0
    ELSE FromBigEndian(SubSeq(bytes, 1, Len(bytes) - 1)) * 256 + bytes[Len(bytes)]

MessageBuilt == pc \in {"sign", "set_sig"} \/ ReturnedOk

\* C6: the message built from the fee is 24 zero bytes, then the fee big-endian.
C6_FeeEncoding ==
    MessageBuilt =>
        /\ Len(msg) = 32
        /\ \A i \in 1..32 : msg[i] \in 0..255
        /\ \A i \in 1..24 : msg[i] = 0
        /\ \A i \in 25..32 : msg[i] = ByteOf(tx.fee, 32 - i)
        /\ FromBigEndian(SubSeq(msg, 25, 32)) = tx.fee
        /\ FromBigEndian(msg) = tx.fee
        /\ \A f \in U64Samples : f # tx.fee => u64_to_32bytes(f) # msg

C6_Witness ==
    /\ pc = "sign"
    /\ tx.fee = 16909060
    /\ SubSeq(msg, 25, 32) = <<0, 0, 0, 0, 1, 2, 3, 4>>

(***************************************************************************)
(* C3: when (tx1, sum1) is the Ok result of a call, a second call with     *)
(* initial_tx(tx1), with_excess(sum1) and then input and output steps      *)
(* whose amounts balance returns a tx2 that holds tx1's inputs, outputs    *)
(* and fee followed by the new inputs and outputs, and whose excess        *)
(* signature verifies against tx2's own commitments; the second call       *)
(* derives keys for the new identifiers only.                              *)
(***************************************************************************)
StackedTail == SubSeq(elems, 3, Len(elems))

TailBalances ==
    SumSeq(MapSeq(StackedTail, InValue)) = SumSeq(MapSeq(StackedTail, OutValue))

InputOf(elem) == Input(keychain_commit(elem.value, elem.pubkey).val)
OutputCommit(out) == out.commit
CommitOf(elem) == keychain_commit(elem.value, elem.pubkey).val
IsInput(elem) == elem.op = "input"
IsOutput(elem) == elem.op = "output"

\* tx2 is tx1 with the inputs and outputs of the stacked steps appended.
StacksOnPrior ==
    /\ result.tx.inputs
          = prior.tx.inputs \o MapSeq(SelectSeq(StackedTail, IsInput), InputOf)
    /\ MapSeq(result.tx.outputs, OutputCommit)
          = MapSeq(prior.tx.outputs, OutputCommit)
               \o MapSeq(SelectSeq(StackedTail, IsOutput), CommitOf)
    /\ result.tx.fee = prior.tx.fee

SecondEnded == call = 2 /\ Ended

\* C3 as stated, for every Ok result of a first call; read of the
\* second calls that return a transaction, with a first transaction and
\* stacked steps that are not empty.
C3_AnyFirstResult ==
    (/\ SecondEnded /\ TailBalances /\ ReturnedOk
     /\ StackedTail # <<>>
     /\ Len(prior.tx.inputs) + Len(prior.tx.outputs) > 0) =>
        /\ StacksOnPrior
        /\ verify_sig(result.tx)
        /\ derived \subseteq NewIds

\* C3 for a first result that itself verifies: a second call stacked on it
\* with balanced input/output steps, when it returns Ok, returns tx1 extended
\* by the new inputs and outputs, verifying, with only new identifiers derived.
C3_VerifyingFirstResult ==
    (SecondEnded /\ TailBalances /\ verify_sig(prior.tx) /\ ReturnedOk) =>
        /\ StacksOnPrior
        /\ verify_sig(result.tx)
        /\ derived \subseteq NewIds
        /\ result.blind = Scalar(prior.blind + ExpectedBlind(StackedTail))

C3_Witness ==
    /\ call = 2
    /\ ReturnedOk
    /\ verify_sig(prior.tx)
    /\ Len(prior.tx.inputs) = 1
    /\ Len(prior.tx.outputs) = 1
    /\ Len(StackedTail) = 2
    /\ TailBalances
    /\ Len(result.tx.inputs) = 2
    /\ Len(result.tx.outputs) = 2
    /\ verify_sig(result.tx)
    /\ derived = NewIds

(***************************************************************************)
(* C11: executing initial_tx(t) on any pair (tx, sum) gives (t, sum): the  *)
(* whole transaction being built (inputs, outputs, fee, excess signature)  *)
(* is replaced by t's, and the accumulator is left as it was.              *)
(***************************************************************************)
Executing(op) == pc = "fold" /\ idx < Len(elems) /\ elems[idx + 1].op = op

C11_InitialTxReplacesTx ==
    [][Executing("initial_tx") =>
          /\ tx' = elems[idx + 1].tx
          /\ sum' = sum
          /\ pc' = "fold"
          /\ idx' = idx + 1]_vars

C11_Witness ==
    /\ pc = "fold"
    /\ idx = 3
    /\ elems[1].op = "input"
    /\ elems[2] = with_fee(0)
    /\ elems[3].op = "initial_tx"
    /\ tx = elems[3].tx
    /\ tx.fee = 1
    /\ Len(sum.negative_pubkeys) = 1

(***************************************************************************)
(* C12: executing with_excess(b) leaves the transaction (inputs, outputs,  *)
(* fee, excess signature) as it was and adds exactly one explicit term b   *)
(* to the accumulator; executing with_fee(f) changes the fee to f and      *)
(* nothing else of the transaction or the accumulator.                     *)
(***************************************************************************)
ExplicitTerms(sum_) ==
    SumSeq(sum_.positive_blinding_factors) - SumSeq(sum_.negative_blinding_factors)

C12_ExcessAndFeeFrames ==
    [][/\ Executing("with_excess") =>
             /\ tx' = tx
             /\ sum'.positive_pubkeys = sum.positive_pubkeys
             /\ sum'.negative_pubkeys = sum.negative_pubkeys
             /\ Len(sum'.positive_blinding_factors) + Len(sum'.negative_blinding_factors)
                   = Len(sum.positive_blinding_factors)
                        + Len(sum.negative_blinding_factors) + 1
             /\ ExplicitTerms(sum') = ExplicitTerms(sum) + elems[idx + 1].excess
       /\ Executing("with_fee") =>
             /\ tx'.fee = elems[idx + 1].fee
             /\ tx'.inputs = tx.inputs
             /\ tx'.outputs = tx.outputs
             /\ tx'.excess_sig = tx.excess_sig
             /\ sum' = sum]_vars

C12_Witness ==
    /\ pc = "fold"
    /\ idx = 3
    /\ elems[1].op = "output"
    /\ elems[2] = with_fee(1)
    /\ elems[3] = with_excess(2)
    /\ Len(tx.outputs) = 1
    /\ tx.fee = 1
    /\ sum.positive_blinding_factors = <<2>>

(***************************************************************************)
(* C13: for a step list without initial_tx, the transaction holds one      *)
(* Input per input step and one Output per output step, in step order: the *)
(* i-th Input wraps commit(value, identifier) of the i-th input step; the  *)
(* j-th Output has the default features, commit(value, identifier) of the  *)
(* j-th output step and the range proof made for that value, identifier    *)
(* and commitment.                                                         *)
(***************************************************************************)
OutputOf(elem) ==
    [features |-> DEFAULT_OUTPUT,
     commit |-> CommitOf(elem),
     proof |-> keychain_range_proof(elem.value, elem.pubkey, CommitOf(elem),
                                    ProofMessage_empty).val]

Executed == SubSeq(elems, 1, idx)

C13_OneInputOutputPerStep ==
    (pc \in {"fold", "msg", "sign", "set_sig", "done"}
       /\ Positions(elems, {"initial_tx"}) = {}) =>
        /\ tx.inputs = MapSeq(SelectSeq(Executed, IsInput), InputOf)
        /\ tx.outputs = MapSeq(SelectSeq(Executed, IsOutput), OutputOf)
        /\ ReturnedOk =>
              /\ idx = Len(elems)
              /\ result.tx.inputs = tx.inputs
              /\ result.tx.outputs = tx.outputs
              /\ Len(result.tx.inputs) = Cardinality(Positions(elems, {"input"}))
              /\ Len(result.tx.outputs) = Cardinality(Positions(elems, {"output"}))

C13_Witness ==
    /\ ReturnedOk
    /\ Len(elems) = 3
    /\ elems[1].op = "input"
    /\ elems[2].op = "input"
    /\ elems[3].op = "output"
    /\ elems[1] # elems[2]
    /\ Len(result.tx.inputs) = 2
    /\ Len(result.tx.outputs) = 1
    /\ result.tx.inputs = <<InputOf(elems[1]), InputOf(elems[2])>>

(***************************************************************************)
(* C14: fail-fast. Once a step has failed, no later step of the list is    *)
(* executed, no finalization operation (sum resolution, message, signing)  *)
(* is performed, and the caller receives no transaction; and it stays so.  *)
(***************************************************************************)
StepFails(elem) ==
    /\ elem.op \in {"input", "output"}
    /\ ~keychain_commit(elem.value, elem.pubkey).ok

FailedSteps == {i \in 1..idx : StepFails(elems[i])}

Aborted ==
    /\ pc = "panicked"
    /\ FailedSteps = {idx}
    /\ derived = UNION {IdsOf(elems[i]) : i \in 1..idx}
    /\ resolved = 0
    /\ blind_sum = 0
    /\ msg = <<>>
    /\ sig = NoSig
    /\ result = Unwound
    /\ result.kind \notin {"Ok", "Err"}

\* C14: after a step has failed the call is aborted for good.
C14_FailFast == [](FailedSteps # {} => []Aborted)

C14_Witness ==
    /\ pc = "panicked"
    /\ Len(elems) = 3
    /\ idx = 2
    /\ elems[1].op = "input"
    /\ StepFails(elems[2])
    /\ elems[3].op = "with_fee"
    /\ Len(tx.inputs) = 1
    /\ tx.fee = 0

(***************************************************************************)
(* C15 as stated: during the fold the excess signature of the transaction  *)
(* being built is empty; only finalization makes it non-empty, and then it *)
(* is a valid signature over the fee encoding under the commitment excess. *)
(***************************************************************************)
BeforeReturn == pc \in {"fold", "msg", "sign", "set_sig", "panicked"}

\* C15 (as stated): the excess signature is empty until finalization sets a valid one.
C15_EmptyUntilFinalization ==
    /\ BeforeReturn => tx.excess_sig = <<>>
    /\ ReturnedOk => verify_sig(result.tx)

(***************************************************************************)
(* C15, amended: before finalization the excess signature of the           *)
(* transaction being built is empty unless an initial_tx(t) step has been  *)
(* executed, and then it is the excess signature of the t executed last;   *)
(* finalization replaces it with the signature over the fee encoding made  *)
(* with the resolved blinding factor, which verifies under the commitment  *)
(* excess when the step list is valid.                                     *)
(***************************************************************************)
CarriedSig ==
    LET K == Positions(Executed, {"initial_tx"})
    IN IF K = {} THEN <<>> ELSE elems[Max(K)].tx.excess_sig

\* C15 (amended): the excess signature is the one carried in by initial_tx, then the finalization's.
C15_CarriedThenFinalized ==
    /\ BeforeReturn => tx.excess_sig = CarriedSig
    /\ ReturnedOk =>
          LET s == from_der(result.tx.excess_sig)
          IN /\ s.ok
             /\ s.val.signer = result.blind
             /\ s.val.message = fee_message(result.tx.fee)
             /\ ValidSteps(elems) => verify_sig(result.tx)

C15_Witness ==
    /\ pc = "fold"
    /\ idx = 2
    /\ elems[1].op = "output"
    /\ elems[2].op = "initial_tx"
    /\ tx.excess_sig # <<>>
    /\ tx.excess_sig = elems[2].tx.excess_sig
    /\ from_der(tx.excess_sig).ok

(***************************************************************************)
(* C16: when initial_tx(t) is executed at position k (the last one, if     *)
(* several), the returned transaction has t's inputs and outputs followed  *)
(* by those of the steps after k, and t's fee unless a with_fee after k    *)
(* overrides it, while the returned blinding factor still holds the terms  *)
(* of every input, output and with_excess step before k. So the result     *)
(* verifies only when the terms before k, with the explicit terms after k, *)
(* add up to the excess of t.                                              *)
(***************************************************************************)
LastInitialTx == Max(Positions(elems, {"initial_tx"}))
BeforeInitialTx == SubSeq(elems, 1, LastInitialTx - 1)
AfterInitialTx == SubSeq(elems, LastInitialTx + 1, Len(elems))
IsExcess(elem) == elem.op = "with_excess"

Reamount(list, f) ==
    [i \in 1..Len(list) |->
        IF list[i].op \in {"input", "output"}
        THEN [list[i] EXCEPT !.value = f[i]] ELSE list[i]]

C17_NoBalanceCheck ==
    Ended =>
        /\ \A f \in [1..Len(elems) -> Values] :
              LET other == transaction(Reamount(elems, f))
              IN /\ other.kind = result.kind
                 /\ result.kind = "Err" => other.err = result.err
                 /\ result.kind = "Ok" => other.blind = result.blind
        /\ (FailedSteps = {} /\ keychain_blind_sum(sum).ok) =>
              /\ ReturnedOk
              /\ from_der(result.tx.excess_sig).ok
              /\ from_der(result.tx.excess_sig).val.signer = result.blind

C17_Witness ==
    /\ ReturnedOk
    /\ Len(elems) = 3
    /\ FromScratch(elems)
    /\ HasInOut(elems)
    /\ ~ValuesBalance(elems)
    /\ sum_commitments(result.tx).h # 0
    /\ \E f \in [1..Len(elems) -> Values] :
          /\ ValuesBalance(Reamount(elems, f))
          /\ transaction(Reamount(elems, f)).blind = result.blind

(***************************************************************************)
(* C18: two calls of transaction() whose operations interleave in any      *)
(* order, each with its own Context and sharing only the keychain, each    *)
(* end as they do when run alone: the same transaction, the same resolved  *)
(* blinding factor (or the same failure); and no operation of one changes  *)
(* the transaction, sum or locals of the other.                            *)
(***************************************************************************)
PeerEnded == peer.pc \in {"done", "panicked"}

AsAlone ==
    /\ Ended => result = transaction(elems)
    /\ PeerEnded => peer.result = transaction(peer.elems)
    /\ pc = "fold" =>
          Pair(tx, sum) = fold(SubSeq(elems, 1, idx), Pair(Transaction_empty, BlindSum_new))
    /\ peer.pc = "fold" =>
          Pair(peer.tx, peer.sum)
             = fold(SubSeq(peer.elems, 1, peer.idx), Pair(Transaction_empty, BlindSum_new))

\* C18: interleaved calls end as when run alone and leave each other's state alone.
C18_InterleavedAsAlone ==
    /\ []AsAlone
    /\ [][/\ peer' # peer => UNCHANGED OwnVars
          /\ Frame' # Frame => UNCHANGED peer]_vars

C18_Witness ==
    /\ ReturnedOk
    /\ peer.pc = "done"
    /\ peer.result.kind = "Ok"
    /\ Len(elems) = 3
    /\ Len(peer.elems) = 3
    /\ Len(result.tx.inputs) = 2
    /\ Len(peer.result.tx.inputs) = 2
    /\ peer.elems[3].op = "with_excess"
    /\ peer.result.blind # result.blind
    /\ result = transaction(elems)
    /\ peer.result = transaction(peer.elems)

(***************************************************************************)
(* C19: transaction() is deterministic and keeps nothing between calls.    *)
(* A call given the step list of an earlier call (same keychain) returns   *)
(* the same inputs, output commitments, fee and blinding factor; every     *)
(* call starts from the empty transaction and the empty sum, and a call    *)
(* ends as its own step list says whatever the call before it was.         *)
(***************************************************************************)
SameContents(a, b) ==
    /\ a.kind = b.kind
    /\ a.kind = "Err" => a.err = b.err
    /\ a.kind = "Ok" =>
          /\ a.tx.inputs = b.tx.inputs
          /\ MapSeq(a.tx.outputs, OutputCommit) = MapSeq(b.tx.outputs, OutputCommit)
          /\ a.tx.fee = b.tx.fee
          /\ a.blind = b.blind

C19_SameListSameResult ==
    /\ (pc = "fold" /\ idx = 0) => (tx = Transaction_empty /\ sum = BlindSum_new)
    /\ (call = 2 /\ Ended) =>
          /\ elems = peer.elems => SameContents(result, peer.result)
          /\ SameContents(result, transaction(elems))

C19_Witness ==
    /\ call = 2
    /\ ReturnedOk
    /\ peer.result.kind = "Ok"
    /\ elems = peer.elems
    /\ Len(elems) = 3
    /\ Len(result.tx.inputs) = 1
    /\ Len(result.tx.outputs) = 1
    /\ result.tx.fee = 1
    /\ result.blind = peer.result.blind

====
